---- MODULE Spec2Model ----
(***************************************************************************)
(* A model of two parts of maro:                                           *)
(*   - maro/rl/algorithms/ac.py: ActorCriticConfig and ActorCritic         *)
(*     (choose_action, _get_values_and_bootstrapped_returns, train);       *)
(*   - maro/cli/data_pipeline/data_center.py: DataCenterPipeline's         *)
(*     _aria2p_download and _check_all_download_completed.                 *)
(* Real numbers are exact rationals <<numerator, denominator>>; a tensor   *)
(* is a record of its shape and its row-major data.                        *)
(***************************************************************************)
EXTENDS Integers, Sequences, FiniteSets, TLC

\* ------------------------------------------------------------- bounds
MaxT == 3
MaxIters == 2
NTheta == 2
MaxUrls == 2

\* The size of the distribution the policy head returns per state.
NumOut == 2

\* ---------------------------------------------------------- rationals
Abs(n) == IF n < 0 THEN -n ELSE n

RECURSIVE GCD(_, _)
GCD(a, b) == IF b = 0 THEN a ELSE GCD(b, a % b)

RNorm(n, d) ==
    LET s == IF d < 0 THEN -1 ELSE 1
        g == GCD(Abs(n), Abs(d))
    IN  <<(s * n) \div g, (s * d) \div g>>

R(n) == <<n, 1>>
Frac(n, d) == RNorm(n, d)
RAdd(x, y) == RNorm(x[1] * y[2] + y[1] * x[2], x[2] * y[2])
RSub(x, y) == RNorm(x[1] * y[2] - y[1] * x[2], x[2] * y[2])
RMul(x, y) == IF x[1] = 0 THEN <<0, 1>> ELSE RNorm(x[1] * y[1], x[2] * y[2])
RLess(x, y) == x[1] * y[2] < y[1] * x[2]
RLeq(x, y) == x[1] * y[2] <= y[1] * x[2]

RECURSIVE RPow(_, _)
RPow(x, n) == IF n = 0 THEN R(1) ELSE RMul(x, RPow(x, n - 1))

RECURSIVE RSum(_)
RSum(s) == IF s = <<>> THEN R(0) ELSE RAdd(Head(s), RSum(Tail(s)))

Min(a, b) == IF a < b THEN a ELSE b

\* ------------------------------------------------------------ tensors
Tensor(shape, data) == [shape |-> shape, data |-> data]
EmptyTensor == Tensor(<<0>>, <<>>)

\* torch.Tensor.squeeze(): every dimension of size 1 is removed.
Squeeze(t) == Tensor(SelectSeq(t.shape, LAMBDA d : d # 1), t.data)

\* torch.from_numpy of a one-dimensional array.
FromNumpy(seq) == Tensor(<<Len(seq)>>, seq)

\* a - b with broadcasting of a 0-dimensional b.
TSub(a, b) ==
    IF b.shape = <<>>
    THEN Tensor(a.shape, [t \in 1..Len(a.data) |-> RSub(a.data[t], b.data[1])])
    ELSE Tensor(a.shape, [t \in 1..Len(a.data) |-> RSub(a.data[t], b.data[t])])

\* tensor.gather(1, index.unsqueeze(1)) on a (T, NumOut) tensor: shape (T, 1).
Gather(t, index) ==
    Tensor(<<Len(index), 1>>,
           [n \in 1..Len(index) |-> t.data[(n - 1) * t.shape[2] + index[n] + 1]])

\* ------------------------------------------- the model (core_model)
\* The states of a trajectory are the indices 0..T-1 of its time steps.
StatesOf(T) == [t \in 1..T |-> t - 1]

Params == [actor : 0..(NTheta - 1), critic : 0..(NTheta - 1)]

\* core_model(states, task="critic"): one scalar per state, shape (T, 1).
CriticForward(p, st) ==
    Tensor(<<Len(st), 1>>, [t \in 1..Len(st) |-> R(2 * p.critic + st[t] - 1)])

\* The distribution of the policy head for one state: a proper distribution,
\* one that gives action 0 probability zero, one with a negative entry, and
\* one that does not sum to 1.
ActorDist(p, s) ==
    CASE (p.actor + s) % 4 = 0 -> <<Frac(1, 2), Frac(1, 2)>>
      [] (p.actor + s) % 4 = 1 -> <<R(0), R(1)>>
      [] (p.actor + s) % 4 = 2 -> <<Frac(3, 2), Frac(-1, 2)>>
      [] OTHER                 -> <<Frac(1, 2), Frac(1, 4)>>

RECURSIVE Flatten(_)
Flatten(rows) == IF rows = <<>> THEN <<>> ELSE Head(rows) \o Flatten(Tail(rows))

\* core_model(states, task="actor"): shape (T, NumOut).
ActorForward(p, st) ==
    Tensor(<<Len(st), NumOut>>, Flatten([t \in 1..Len(st) |-> ActorDist(p, st[t])]))

\* core_model.step(loss): one update of the parameters the loss depends on.
\* Without shared layers the actor loss reaches the policy parameters only
\* (state_values is detached, return_est comes from numpy) and the critic
\* loss the value parameters only.
StepParams(p, loss) ==
    IF loss.task = "actor"
    THEN [p EXCEPT !.actor = (@ + 1) % NTheta]
    ELSE [p EXCEPT !.critic = (@ + 1) % NTheta]

\* ------------------------------------------------ get_lambda_returns
\* The n-step return at position t (1-based) of a trajectory of length
\* Len(r): the discounted rewards of n steps plus the discounted value
\* estimate at the truncation point; past the end of the trajectory the sum
\* is truncated and there is no bootstrap term.
NStepReturn(r, v, g, t, n) ==
    LET T == Len(r)
        m == Min(n, T - t + 1)
        rs == RSum([i \in 1..m |-> RMul(RPow(g, i - 1), R(r[t + i - 1]))])
    IN  IF t + n <= T THEN RAdd(rs, RMul(RPow(g, n), v[t + n])) ELSE rs

\* The horizon at t: the rest of the trajectory for k = -1, else k steps.
Horizon(T, t, k) == IF k < 0 THEN T - t + 1 ELSE Min(k, T - t + 1)

LambdaReturnAt(r, v, g, lam, k, t) ==
    LET N == Horizon(Len(r), t, k)
        w(n) == IF n < N THEN RMul(RSub(R(1), lam), RPow(lam, n - 1))
                         ELSE RPow(lam, N - 1)
    IN  RSum([n \in 1..N |-> RMul(w(n), NStepReturn(r, v, g, t, n))])

get_lambda_returns(r, v, g, lam, k) ==
    [t \in 1..Len(r) |-> LambdaReturnAt(r, v, g, lam, k, t)]

\* ------------------------------------------------- ActorCriticConfig
ActorCriticConfig(num_actions, reward_decay, actor_train_iters, critic_train_iters, k, lam) ==
    [num_actions |-> num_actions, reward_decay |-> reward_decay,
     actor_train_iters |-> actor_train_iters,
     critic_train_iters |-> critic_train_iters, k |-> k, lam |-> lam]

IterInputs == -1..MaxIters
DecayInputs == {R(0), Frac(1, 2), Frac(9, 10), R(1), Frac(3, 2)}
LamInputs == {Frac(-1, 2), R(0), Frac(1, 2), R(1)}
KInputs == {-1, 1, 2}
NumActionsInputs == 0..(NumOut + 1)
RewardInputs == {0, 1, 2}

\* The configurations an instance is constructed with: the iteration counts
\* and num_actions over all their values, the rest at (9/10, -1, 1).
ControlConfigs ==
    {ActorCriticConfig(NumOut, Frac(9, 10), a, c, -1, R(1)) :
        a \in IterInputs, c \in IterInputs}
    \cup {ActorCriticConfig(n, Frac(9, 10), 1, 2, -1, R(1)) : n \in NumActionsInputs}

\* The configurations of a single train call: reward_decay, k and lam over
\* all their values, with one policy and two value iterations.
NumericConfigs ==
    {ActorCriticConfig(NumOut, g, 1, 2, -1, R(1)) : g \in DecayInputs}
    \cup {ActorCriticConfig(NumOut, Frac(9, 10), 1, 2, k, l) :
            k \in KInputs, l \in LamInputs}

\* -------------------------------------------------------- variables
VARIABLES
    config,         \* ActorCritic._config
    has_trainable_shared_layers,   \* core_model.has_trainable_shared_layers
    params,         \* the parameters of core_model
    mode,           \* core_model.training: "train" or "eval"
    pc,             \* "idle", or the position inside a call to train
    iter,           \* the loop counter of the running loop of train
    states, actions, rewards,      \* the arguments of the running train call
    state_values, return_est, advantages,   \* locals of train
    params0,        \* (history) the parameters when train was called
    stepLog,        \* (history) the step calls of the running train call
    result,         \* (history) the last choose_action call since the last train
    dl_pc,          \* the position inside _aria2p_download, "off" when not called
    urls,           \* the lines of the downloaded url file
    url_pos,        \* the line the for loop is at
    is_force,       \* the argument of _aria2p_download
    vm_table_exists,               \* os.path.exists(self._vm_table_file)
    num_files,      \* the local num_files
    cpu_readings_file_name_list,   \* self._cpu_readings_file_name_list
    aria2,          \* the aria2 daemon: the status of each download, by gid
    downloads       \* the local downloads of _check_all_download_completed

acVars == <<config, has_trainable_shared_layers, params, mode, pc, iter, states,
            actions, rewards, state_values, return_est, advantages, params0,
            stepLog, result>>
dlVars == <<dl_pc, urls, url_pos, is_force, vm_table_exists, num_files,
            cpu_readings_file_name_list, aria2, downloads>>
vars == <<acVars, dlVars>>

NoResult == [kind |-> "none", value |-> -1, state |-> -1]

\* ------------------------------------------------------ choose_action
\* np.random.choice(a, p=p) for an int a: the indices it can return, or
\* ValueError when a < 1, p is not one-dimensional, the sizes differ, p has a
\* negative entry or p does not sum to 1.
NpRandomChoice(a, p) ==
    IF \/ a <= 0
       \/ Len(p.shape) # 1
       \/ Len(p.data) # a
       \/ \E i \in 1..Len(p.data) : RLess(p.data[i], R(0))
       \/ RSum(p.data) # R(1)
    THEN {[kind |-> "ValueError", value |-> -1]}
    ELSE {[kind |-> "returned", value |-> i - 1] :
            i \in {j \in 1..Len(p.data) : RLess(R(0), p.data[j])}}

\* state.unsqueeze(0), the forward pass in eval mode under no_grad, squeeze().
ActionDist(s) == Squeeze(ActorForward(params, <<s>>))

\* Mutant: choose_action runs a gradient step on the policy it has evaluated.
ChooseActionStepping(s) ==
    /\ pc = "idle"
    /\ mode' = "eval"
    /\ \E r \in NpRandomChoice(config.num_actions, ActionDist(s)) :
           result' = [kind |-> r.kind, value |-> r.value, state |-> s]
    /\ params' = StepParams(params, [task |-> "actor"])
    /\ UNCHANGED <<config, has_trainable_shared_layers, pc, iter, states,
                   actions, rewards, state_values, return_est, advantages,
                   params0, stepLog>>
    /\ UNCHANGED dlVars

\* Mutant: choose_action draws an index without handing the distribution to
\* np.random.choice.
ChooseActionUnchecked(s) ==
    /\ pc = "idle"
    /\ mode' = "eval"
    /\ \E i \in 0..NumOut :
           result' = [kind |-> "returned", value |-> i, state |-> s]
    /\ UNCHANGED <<config, has_trainable_shared_layers, params, pc, iter, states,
                   actions, rewards, state_values, return_est, advantages,
                   params0, stepLog>>
    /\ UNCHANGED dlVars

ChooseAction(s) ==
    /\ pc = "idle"
    /\ mode' = "eval"
    /\ \E r \in NpRandomChoice(config.num_actions, ActionDist(s)) :
           result' = [kind |-> r.kind, value |-> r.value, state |-> s]
    /\ UNCHANGED <<config, has_trainable_shared_layers, params, pc, iter, states,
                   actions, rewards, state_values, return_est, advantages,
                   params0, stepLog>>
    /\ UNCHANGED dlVars

\* -------------------------------------------------------------- train
\* (_compute_actor_loss, line 85, is a header without a body and is called
\* nowhere; it has no part in the model.)
\* _get_values_and_bootstrapped_returns: the detached, squeezed critic output
\* and the lambda returns computed from its numpy view.
\* Mutant: reward_decay and lam are passed in each other's place.
GetValuesSwappedArguments(p, state_sequence, reward_sequence) ==
    LET sv == Squeeze(CriticForward(p, state_sequence))
    IN  [state_values |-> sv,
         return_est |-> FromNumpy(get_lambda_returns(
             reward_sequence, sv.data, config.lam, config.reward_decay, config.k))]

GetValuesAndBootstrappedReturns(p, state_sequence, reward_sequence) ==
    LET sv == Squeeze(CriticForward(p, state_sequence))
        state_values_numpy == sv.data
    IN  [state_values |-> sv,
         return_est |-> FromNumpy(get_lambda_returns(
             reward_sequence, state_values_numpy, config.reward_decay,
             config.lam, config.k))]

\* range(n) has an iteration left after i of them.
InRange(i, n) == i < n

\* Where train goes once the advantages are computed, and after each loop.
AfterPolicyLoop ==
    IF InRange(0, config.critic_train_iters) THEN "critic" ELSE "done"

\* Mutant: the loops run whether or not the model has shared layers.
EnterBranchIgnoringSharedLayers ==
    IF InRange(0, config.actor_train_iters) THEN "actor" ELSE AfterPolicyLoop

EnterBranch ==
    IF has_trainable_shared_layers
    THEN "done"
    ELSE IF InRange(0, config.actor_train_iters) THEN "actor" ELSE AfterPolicyLoop

\* torch.log(action_prob) is finite where the probability is positive; the
\* mean of an empty tensor is nan.
ActorLossFinite(action_prob) ==
    /\ Len(action_prob.data) > 0
    /\ \A t \in 1..Len(action_prob.data) : RLess(R(0), action_prob.data[t])

\* -(torch.log(action_prob) * advantages).mean(), kept as its operands.
ActorLoss(action_prob, adv) ==
    [task |-> "actor", pred |-> action_prob, target |-> adv,
     finite |-> ActorLossFinite(action_prob)]

\* Mutant: the targets are recomputed from the current parameters.
CriticTargetRecomputed ==
    GetValuesAndBootstrappedReturns(params, states, rewards).return_est

\* The targets handed to the critic loss function.
CriticTarget == return_est

\* self._critic_loss_func(prediction, return_est), kept as its operands.
CriticLoss(pred, target) ==
    [task |-> "critic", pred |-> pred, target |-> target, finite |-> TRUE]

LogEntry(loss, before, after) ==
    [loss |-> loss, at |-> before, after |-> after]

TrainBegin(T, acts, rews) ==
    /\ pc = "idle"
    /\ \E vr \in {GetValuesAndBootstrappedReturns(params, StatesOf(T), rews)} :
           /\ states' = StatesOf(T)
           /\ state_values' = vr.state_values
           /\ return_est' = vr.return_est
           /\ advantages' = TSub(vr.return_est, vr.state_values)
    /\ actions' = acts
    /\ rewards' = rews
    /\ params0' = params
    /\ stepLog' = <<>>
    /\ iter' = 0
    /\ pc' = EnterBranch
    /\ result' = NoResult
    /\ UNCHANGED <<config, has_trainable_shared_layers, params, mode>>
    /\ UNCHANGED dlVars

\* One iteration of the policy loop (lines 96-99).
ActorIter ==
    /\ pc = "actor"
    /\ LET action_prob == Squeeze(Gather(ActorForward(params, states), actions))
           actor_loss == ActorLoss(action_prob, advantages)
           after == StepParams(params, actor_loss)
       IN  /\ params' = after
           /\ stepLog' = Append(stepLog, LogEntry(actor_loss, params, after))
    /\ IF InRange(iter + 1, config.actor_train_iters)
       THEN pc' = "actor" /\ iter' = iter + 1
       ELSE pc' = AfterPolicyLoop /\ iter' = 0
    /\ UNCHANGED <<config, has_trainable_shared_layers, mode, states, actions,
                   rewards, state_values, return_est, advantages, params0, result>>
    /\ UNCHANGED dlVars

\* One iteration of the value loop (lines 102-104).
CriticIter ==
    /\ pc = "critic"
    /\ LET pred == Squeeze(CriticForward(params, states))
           critic_loss == CriticLoss(pred, CriticTarget)
           after == StepParams(params, critic_loss)
       IN  /\ params' = after
           /\ stepLog' = Append(stepLog, LogEntry(critic_loss, params, after))
    /\ IF InRange(iter + 1, config.critic_train_iters)
       THEN pc' = "critic" /\ iter' = iter + 1
       ELSE pc' = "done" /\ iter' = 0
    /\ UNCHANGED <<config, has_trainable_shared_layers, mode, states, actions,
                   rewards, state_values, return_est, advantages, params0, result>>
    /\ UNCHANGED dlVars

\* train returns; its locals go out of scope.
TrainReturn ==
    /\ pc = "done"
    /\ pc' = "idle"
    /\ states' = <<>>
    /\ actions' = <<>>
    /\ rewards' = <<>>
    /\ state_values' = EmptyTensor
    /\ return_est' = EmptyTensor
    /\ advantages' = EmptyTensor
    /\ stepLog' = <<>>
    /\ params0' = params
    /\ iter' = 0
    /\ UNCHANGED <<config, has_trainable_shared_layers, params, mode, result>>
    /\ UNCHANGED dlVars

\* ------------------------------------------------ the download state
\* num_files = 2: the number of cpu readings files downloaded.
NumCpuFiles == 2

DlIdle ==
    /\ dl_pc = "off"
    /\ urls = <<>>
    /\ url_pos = 1
    /\ is_force = FALSE
    /\ vm_table_exists = FALSE
    /\ num_files = NumCpuFiles
    /\ cpu_readings_file_name_list = <<>>
    /\ aria2 = <<>>
    /\ downloads = {}

\* --------------------------------------------------- the specification
\* An ActorCritic instance after __init__.
Constructed(configs, shared, initial) ==
    /\ config \in configs
    /\ has_trainable_shared_layers \in shared
    /\ params \in initial
    /\ mode = "train"
    /\ pc = "idle"
    /\ iter = 0
    /\ states = <<>>
    /\ actions = <<>>
    /\ rewards = <<>>
    /\ state_values = EmptyTensor
    /\ return_est = EmptyTensor
    /\ advantages = EmptyTensor
    /\ params0 = params
    /\ stepLog = <<>>
    /\ result = NoResult

\* The actions of a trajectory of length T: the actions in turn, from any one.
ActionInputs(T) ==
    {[t \in 1..T |-> (a0 + t - 1) % NumOut] : a0 \in 0..(NumOut - 1)}

\* Its rewards: the rewards in turn, from any one; or any sequence of them.
RewardsInTurn(T) ==
    {[t \in 1..T |-> (r0 + t - 1) % Cardinality(RewardInputs)] : r0 \in RewardInputs}

AllRewards(T) == [1..T -> RewardInputs]

\* The life of an instance: choose_action and train calls in any order.
Init ==
    /\ Constructed(ControlConfigs, BOOLEAN, Params)
    /\ DlIdle

Next ==
    \/ \E s \in 0..(MaxT - 1) : ChooseAction(s)
    \/ \E T \in 0..MaxT :
         \E acts \in ActionInputs(T), rews \in RewardsInTurn(T) :
            TrainBegin(T, acts, rews)
    \/ ActorIter
    \/ CriticIter
    \/ TrainReturn

Spec == Init /\ [][Next]_vars

\* One call to train, on any trajectory, under any reward_decay, k and lam.
TrainCallInit ==
    /\ Constructed(NumericConfigs, {FALSE}, {p \in Params : p.actor = 0})
    /\ DlIdle

TrainCallNext ==
    \/ \E T \in 0..MaxT :
         \E acts \in ActionInputs(T), rews \in AllRewards(T) :
            TrainBegin(T, acts, rews)
    \/ ActorIter
    \/ CriticIter

TrainCallSpec == TrainCallInit /\ [][TrainCallNext]_vars

\* ------------------------------------------------- _aria2p_download
\* A line of the url file, by what the loop makes of its file name:
\* "vmtable" starts with vmtable; "cpu_present" and "cpu_absent" start with
\* vm_cpu_readings and have, or have not, a file in the download folder;
\* "other" is any other line.
UrlInputs == {"vmtable", "cpu_present", "cpu_absent", "other"}

RECURSIVE SeqsUpTo(_, _)
SeqsUpTo(S, n) ==
    IF n = 0 THEN {<<>>}
    ELSE SeqsUpTo(S, n - 1) \cup
         {Append(q, x) : q \in {r \in SeqsUpTo(S, n - 1) : Len(r) = n - 1}, x \in S}

\* aria2.add_uris: the daemon gets a new download.
AddUris == Append(aria2, "active")

\* One line of the for loop over the url file (lines 72-92).
AddStep ==
    /\ dl_pc = "adding"
    /\ url_pos <= Len(urls)
    /\ LET line == urls[url_pos]
       IN  IF line = "vmtable"
           THEN /\ aria2' = IF (~is_force) /\ vm_table_exists THEN aria2 ELSE AddUris
                /\ UNCHANGED <<num_files, cpu_readings_file_name_list>>
           ELSE IF line \in {"cpu_present", "cpu_absent"} /\ num_files > 0
           THEN /\ num_files' = num_files - 1
                /\ cpu_readings_file_name_list' =
                       Append(cpu_readings_file_name_list, url_pos)
                /\ aria2' = IF (~is_force) /\ line = "cpu_present"
                            THEN aria2 ELSE AddUris
           ELSE UNCHANGED <<num_files, cpu_readings_file_name_list, aria2>>
    /\ url_pos' = url_pos + 1
    /\ UNCHANGED <<dl_pc, urls, is_force, vm_table_exists, downloads>>
    /\ UNCHANGED acVars

\* The loop is over: self._check_all_download_completed() (line 94).
AddDone ==
    /\ dl_pc = "adding"
    /\ url_pos > Len(urls)
    /\ dl_pc' = "poll"
    /\ UNCHANGED <<urls, url_pos, is_force, vm_table_exists, num_files,
                   cpu_readings_file_name_list, aria2, downloads>>
    /\ UNCHANGED acVars

\* downloads = self.aria2.get_downloads() (line 100): the downloads the daemon
\* reports, each with the status it has now.
GetDownloads ==
    {[gid |-> g, status |-> aria2[g]] : g \in {h \in 1..Len(aria2) : aria2[h] # "removed"}}

PollGet ==
    /\ dl_pc = "poll"
    /\ downloads' = GetDownloads
    /\ dl_pc' = "decide"
    /\ UNCHANGED <<urls, url_pos, is_force, vm_table_exists, num_files,
                   cpu_readings_file_name_list, aria2>>
    /\ UNCHANGED acVars

\* download.is_complete
IsComplete(d) == d.status = "complete"

\* self.aria2.remove(downloads)
Remove(ds) ==
    [g \in 1..Len(aria2) |-> IF g \in {d.gid : d \in ds} THEN "removed" ELSE aria2[g]]

\* Mutant: any() in place of all().
PollDecideAny ==
    /\ dl_pc = "decide"
    /\ IF Cardinality(downloads) = 0
       THEN dl_pc' = "returned" /\ aria2' = aria2
       ELSE IF \E d \in downloads : IsComplete(d)
       THEN dl_pc' = "returned" /\ aria2' = Remove(downloads)
       ELSE dl_pc' = "poll" /\ aria2' = aria2
    /\ UNCHANGED <<urls, url_pos, is_force, vm_table_exists, num_files,
                   cpu_readings_file_name_list, downloads>>
    /\ UNCHANGED acVars

\* The rest of one pass of the while loop (lines 101-114): break on no
\* download, remove and break when all are complete, else sleep and poll again.
PollDecide ==
    /\ dl_pc = "decide"
    /\ IF Cardinality(downloads) = 0
       THEN dl_pc' = "returned" /\ aria2' = aria2
       ELSE IF \A d \in downloads : IsComplete(d)
       THEN dl_pc' = "returned" /\ aria2' = Remove(downloads)
       ELSE dl_pc' = "poll" /\ aria2' = aria2
    /\ UNCHANGED <<urls, url_pos, is_force, vm_table_exists, num_files,
                   cpu_readings_file_name_list, downloads>>
    /\ UNCHANGED acVars

\* The daemon finishes a download, or gives it up with an error.
DaemonCompletes(g) ==
    /\ aria2[g] = "active"
    /\ aria2' = [aria2 EXCEPT ![g] = "complete"]
    /\ UNCHANGED <<dl_pc, urls, url_pos, is_force, vm_table_exists, num_files,
                   cpu_readings_file_name_list, downloads>>
    /\ UNCHANGED acVars

DaemonFails(g) ==
    /\ aria2[g] = "active"
    /\ aria2' = [aria2 EXCEPT ![g] = "error"]
    /\ UNCHANGED <<dl_pc, urls, url_pos, is_force, vm_table_exists, num_files,
                   cpu_readings_file_name_list, downloads>>
    /\ UNCHANGED acVars

\* _aria2p_download is called on a url file of up to MaxUrls lines, with a
\* daemon that may already hold a download.
DownloadInit ==
    /\ Constructed({ActorCriticConfig(NumOut, Frac(9, 10), 1, 2, -1, R(1))},
                   {FALSE}, {[actor |-> 0, critic |-> 0]})
    /\ dl_pc = "adding"
    /\ urls \in SeqsUpTo(UrlInputs, MaxUrls)
    /\ url_pos = 1
    /\ is_force \in BOOLEAN
    /\ vm_table_exists \in BOOLEAN
    /\ num_files = NumCpuFiles
    /\ cpu_readings_file_name_list = <<>>
    /\ aria2 \in {<<>>, <<"active">>, <<"complete">>, <<"error">>}
    /\ downloads = {}

Program == AddStep \/ AddDone \/ PollGet \/ PollDecide

DownloadNext ==
    \/ AddStep
    \/ AddDone
    \/ PollGet
    \/ PollDecide
    \/ \E g \in 1..Len(aria2) : DaemonCompletes(g)
    \/ \E g \in 1..Len(aria2) : DaemonFails(g)

\* The program is a running thread: it takes its next step; the daemon owes
\* nothing.
DownloadSpec == DownloadInit /\ [][DownloadNext]_vars /\ WF_vars(Program)

\* ================================================= properties (ac.py)
TrainRunning == pc \in {"actor", "critic", "done"}

\* r[t] + g * (r[t+1] + g * (...)), backward from the end of the trajectory.
RECURSIVE DiscountedSum(_, _, _)
DiscountedSum(r, g, t) ==
    IF t > Len(r) THEN R(0)
    ELSE RAdd(R(r[t]), RMul(g, DiscountedSum(r, g, t + 1)))

MonteCarloConfig == config.lam = R(1) /\ config.k = -1

C1_WitnessSingleStep ==
    /\ TrainRunning /\ MonteCarloConfig
    /\ rewards = <<2>>
    /\ return_est.data = <<R(2)>>

IsTask(n, task) == stepLog[n].loss.task = task

\* C2: without shared layers a finished train call has made exactly
\* actor_train_iters policy steps followed by exactly critic_train_iters value
\* steps, each evaluated under the parameters the preceding step left.
C2_IterationCounts ==
    (pc = "done" /\ ~has_trainable_shared_layers) =>
        /\ Len(stepLog) = config.actor_train_iters + config.critic_train_iters
        /\ \A n \in 1..Len(stepLog) :
              /\ IsTask(n, IF n <= config.actor_train_iters THEN "actor" ELSE "critic")
              /\ stepLog[n].at = (IF n = 1 THEN params0 ELSE stepLog[n - 1].after)
        /\ (stepLog # <<>> => stepLog[Len(stepLog)].after = params)

\* With counts that range() does not read as zero the same holds: the step
\* calls are max(0, actor_train_iters) policy steps, then
\* max(0, critic_train_iters) value steps.
NonNegative(n) == IF n < 0 THEN 0 ELSE n

IterationCountsOfRange ==
    (pc = "done" /\ ~has_trainable_shared_layers) =>
        /\ Len(stepLog) = NonNegative(config.actor_train_iters)
                            + NonNegative(config.critic_train_iters)
        /\ \A n \in 1..Len(stepLog) :
              /\ IsTask(n, IF n <= config.actor_train_iters THEN "actor" ELSE "critic")
              /\ stepLog[n].at = (IF n = 1 THEN params0 ELSE stepLog[n - 1].after)
        /\ (stepLog # <<>> => stepLog[Len(stepLog)].after = params)

\* The values train computes before its first step call, from the parameters
\* it was called with.
InitialEstimates == GetValuesAndBootstrappedReturns(params0, states, rewards)

\* C3: the return targets and the advantages of a train call are those
\* computed from the parameters at the call, and every step call of the call
\* gets a loss against exactly those values.
C3_TargetsFixed ==
    TrainRunning =>
        /\ \A e \in {InitialEstimates} :
              /\ return_est = e.return_est
              /\ advantages = TSub(e.return_est, e.state_values)
        /\ \A n \in 1..Len(stepLog) :
              stepLog[n].loss.target =
                  (IF IsTask(n, "actor") THEN advantages ELSE return_est)

\* Two value iterations saw different predictions and the same targets, and
\* targets recomputed from the parameters of the later one would have differed.
C3_Witness ==
    /\ pc = "done"
    /\ \E n, m \in 1..Len(stepLog) :
          /\ IsTask(n, "critic") /\ IsTask(m, "critic")
          /\ stepLog[n].loss.pred # stepLog[m].loss.pred
          /\ stepLog[n].loss.target = stepLog[m].loss.target
          /\ GetValuesAndBootstrappedReturns(stepLog[m].at, states, rewards).return_est
                 # stepLog[m].loss.target

InUnit(x) == RLeq(R(0), x) /\ RLeq(x, R(1))

ValidConfig(c) ==
    /\ c.num_actions >= 1
    /\ InUnit(c.reward_decay)
    /\ InUnit(c.lam)
    /\ c.actor_train_iters >= 0
    /\ c.critic_train_iters >= 0

\* C4: no ActorCriticConfig holding an invalid hyperparameter exists.
C4_ConfigValidated == ValidConfig(config)

\* C5: no step call of a policy iteration in which a taken action has
\* probability zero gets a non-finite loss (stated for the valid
\* configurations: the failure does not rest on an invalid one).
C5_ZeroProbabilityGuarded ==
    \A n \in 1..Len(stepLog) :
        (/\ ValidConfig(config)
         /\ IsTask(n, "actor")
         /\ \E t \in 1..Len(stepLog[n].loss.pred.data) :
               stepLog[n].loss.pred.data[t] = R(0))
        => stepLog[n].loss.finite

\* A step between two idle states is a choose_action call.
ChooseActionStep == pc = "idle" /\ pc' = "idle" /\ result' # NoResult

BadDistribution(d) ==
    \/ \E i \in 1..Len(d.data) : RLess(d.data[i], R(0))
    \/ RSum(d.data) # R(1)

\* C7: choose_action fails when the distribution has a negative entry or does
\* not sum to 1, and an action it returns is an index below num_actions.
C7_SamplingValidated ==
    (pc = "idle" /\ result.kind # "none") =>
        /\ BadDistribution(ActionDist(result.state)) => result.kind = "ValueError"
        /\ result.kind = "returned" => result.value \in 0..(config.num_actions - 1)

C7_Witness ==
    /\ pc = "idle"
    /\ result.kind = "ValueError"
    /\ config.num_actions = NumOut
    /\ BadDistribution(ActionDist(result.state))

C7_WitnessReturned ==
    /\ pc = "idle"
    /\ result.kind = "returned"
    /\ ~BadDistribution(ActionDist(result.state))

\* C8: the advantages, the return targets and the state values of a train
\* call all have length T, and advantages[t] = return_est[t] - state_values[t]
\* (stated for the valid configurations).
C8_AdvantageLengths ==
    (TrainRunning /\ ValidConfig(config)) =>
        /\ return_est.shape = <<Len(rewards)>>
        /\ state_values.shape = <<Len(rewards)>>
        /\ advantages.shape = <<Len(rewards)>>
        /\ \A t \in 1..Len(rewards) :
              advantages.data[t] = RSub(return_est.data[t], state_values.data[t])

Reported == {g \in 1..Len(aria2) : aria2[g] # "removed"}

AllSettled == \A g \in 1..Len(aria2) : aria2[g] \in {"complete", "removed"}

RemovesSome == \E g \in 1..Len(aria2) : aria2[g] # "removed" /\ aria2'[g] = "removed"

\* C10: _aria2p_download returns only after a poll that saw no download or
\* only complete ones, never while a reported download is incomplete; it
\* removes downloads only in a poll that saw them all complete; and when
\* every download ends up complete the polling loop exits.
C10_PollingLoop ==
    /\ [](dl_pc = "returned" =>
            /\ \A d \in downloads : IsComplete(d)
            /\ \A g \in Reported : aria2[g] = "complete")
    /\ [][RemovesSome =>
            /\ dl_pc = "decide"
            /\ downloads # {}
            /\ \A d \in downloads : IsComplete(d)
            /\ aria2' = Remove(downloads)]_vars
    /\ (<>[]AllSettled => <>(dl_pc = "returned"))

\* The loop went round at least once more and then removed its downloads.
C10_Witness ==
    /\ dl_pc = "returned"
    /\ Cardinality(downloads) >= 2
    /\ \A d \in downloads : aria2[d.gid] = "removed"

====
